---- MODULE Spec2Model ----
(***************************************************************************)
(* A model of the AI payment concierge: the JSON DataStore, the three      *)
(* scoring agents, the decision aggregator, the orchestrator               *)
(* (MultiAgentSystem) and the Flask routes that call it.                   *)
(*                                                                         *)
(* Python floats are modelled as exact rationals [n, d] (d > 0, lowest     *)
(* terms): every comparison the code makes is made on the exact value.     *)
(* Money is in dollars (19.40 is 97/5).                                    *)
(***************************************************************************)
EXTENDS Integers, Sequences, FiniteSets, TLC

VARIABLES
    txFile,       \* data/transactions.json: [exists, content]
    profileFile,  \* data/user_profile.json: [exists, content]
    budgetFile,   \* data/budget.json: [exists, content]
    scriptFile,   \* my-locus-app/temp_send_payment.js: [exists, owner]
    constructed,  \* system = MultiAgentSystem() has run
    now,          \* the wall clock datetime.now() reads
    req,          \* per request: the handler's position and its locals
    resp,         \* per request: the last HTTP response it produced
    dash,         \* the last value get_dashboard_data returned
    profileResp,  \* the last profile GET /api/profile returned
    agg           \* DecisionAgent.aggregate applied on its own: inputs and output

vars == <<txFile, profileFile, budgetFile, scriptFile, constructed, now, req, resp,
          dash, profileResp, agg>>

-----------------------------------------------------------------------------
\* Bounds of the model.

\* Persisted transactions after which the sequential system takes no new purchase.
MaxTx == 8
\* Persisted transactions after which the dashboard scenario takes no new purchase.
MaxDashTx == 11
\* Calendar: the day the system is constructed, and the length of a year in days.
StartDay == 369
DaysPerYear == 365
\* Persisted transactions after which the concurrent system takes no new purchase.
MaxConcTx == 8
\* Length of the stored histories the anomaly agent is applied to on its own.
MaxHist == 2
\* Scores handed to the aggregator on its own are k / ScoreSteps, k in -1 .. ScoreSteps + 1.
ScoreSteps == 4

\* Request identifiers; the sequential system serves one request at a time.
Reqs == {1, 2}
SeqReqs == {1}

-----------------------------------------------------------------------------
\* Exact rational arithmetic standing for Python's float arithmetic.

Abs(x) == IF x < 0 THEN -x ELSE x

RECURSIVE GCD(_, _)
GCD(a, b) == IF b = 0 THEN a ELSE GCD(b, a % b)

Rat(n, d) ==
    LET s == IF d < 0 THEN -1 ELSE 1
        g == GCD(Abs(n), Abs(d))
    IN  [n |-> (s * n) \div g, d |-> (s * d) \div g]

Int2R(k) == [n |-> k, d |-> 1]
Zero == Int2R(0)
One == Int2R(1)
Half == Rat(1, 2)

RAdd(a, b) ==
    LET g == GCD(a.d, b.d)
    IN  Rat(a.n * (b.d \div g) + b.n * (a.d \div g), (a.d \div g) * b.d)
RNeg(a) == [n |-> -a.n, d |-> a.d]
RSub(a, b) == RAdd(a, RNeg(b))
RMul(a, b) ==
    LET g1 == GCD(Abs(a.n), b.d)
        g2 == GCD(Abs(b.n), a.d)
    IN  IF a.n = 0 \/ b.n = 0 THEN Zero
        ELSE Rat((a.n \div g1) * (b.n \div g2), (a.d \div g2) * (b.d \div g1))
RDiv(a, b) == RMul(a, Rat(b.d, b.n))     \* b # 0
RLe(a, b) == a.n * b.d <= b.n * a.d
RLt(a, b) == a.n * b.d < b.n * a.d
RGe(a, b) == RLe(b, a)
RGt(a, b) == RLt(b, a)
RMax(a, b) == IF RLt(a, b) THEN b ELSE a     \* max(a, b): the first of equals
RMin(a, b) == IF RLt(b, a) THEN b ELSE a     \* min(a, b): the first of equals

\* Python 3 round(x): to the nearest integer, ties to the even one.
PyRound(x) ==
    LET f == x.n \div x.d
        twice == 2 * (x.n - f * x.d)
    IN  IF twice < x.d THEN f
        ELSE IF twice > x.d THEN f + 1
        ELSE IF f % 2 = 0 THEN f ELSE f + 1

\* round(x, 2)
PyRound2(x) == Rat(PyRound(RMul(x, Int2R(100))), 100)

\* math.ceil, used only to state what a round-up to the next whole unit is.
Ceil(x) == -((-x.n) \div x.d)

RECURSIVE SumR(_)
SumR(s) == IF s = <<>> THEN Zero ELSE RAdd(Head(s), SumR(Tail(s)))

RECURSIVE MaxR(_)
MaxR(s) == IF Len(s) = 1 THEN s[1] ELSE RMax(s[1], MaxR(Tail(s)))

-----------------------------------------------------------------------------
\* Time. A clock reading is [d, us]: d stands for the fixed-width
\* "YYYY-MM-DDTHH:MM:SS" field (counted in days), us for the microseconds.

Time(d, us) == [d |-> d, us |-> us]

\* datetime.isoformat(): the fraction is printed only when microsecond # 0.
\* A string is the sequence of its fields; d is fixed-width, so comparing it as
\* a number is comparing it as text.
IsoFormat(t) == IF t.us = 0 THEN <<t.d>> ELSE <<t.d, t.us>>

\* datetime.fromisoformat()
FromIsoFormat(s) == [d |-> s[1], us |-> IF Len(s) >= 2 THEN s[2] ELSE 0]

\* datetime.year
YearOf(t) == t.d \div DaysPerYear

\* Python's order on strings: field by field, a proper prefix is smaller.
RECURSIVE StrLess(_, _)
StrLess(a, b) ==
    IF b = <<>> THEN FALSE
    ELSE IF a = <<>> THEN TRUE
    ELSE IF Head(a) # Head(b) THEN Head(a) < Head(b)
    ELSE StrLess(Tail(a), Tail(b))

\* x - timedelta(days = k)
MinusDays(t, k) == [d |-> t.d - k, us |-> t.us]

-----------------------------------------------------------------------------
\* Categories.

CATEGORIES == {"food", "transportation", "entertainment", "shopping", "bills", "other"}

\* str.lower() on the category names that occur.
Lower(c) ==
    CASE c = "FOOD" -> "food"
      [] c = "Pets" -> "pets"
      [] OTHER -> c

-----------------------------------------------------------------------------
\* Records.

\* A dict's .get(key, default); a dict is a function from its keys.
Get(dict, key, default) == IF key \in DOMAIN dict THEN dict[key] ELSE default

\* A score field of an agent's result: a number, absent, or not a number.
Num(x) == [kind |-> "num", v |-> x]
NoScore == [kind |-> "missing", v |-> Zero]
StrScore == [kind |-> "str", v |-> Zero]

\* An agent's result dict: "status" ("" when absent), whether "analysis" is
\* present, and "score".
Result(status, hasAnalysis, score) ==
    [status |-> status, hasAnalysis |-> hasAnalysis, score |-> score]
NoResult == Result("", FALSE, NoScore)

NoDecision ==
    [color |-> "", explanation |-> "", auto_invest |-> Zero, score |-> Zero,
     agent_results |-> [longevity |-> NoResult, budget |-> NoResult, anomaly |-> NoResult]]

\* A transaction dict; hasDecision and hasColor say whether the keys are present.
Tx(amount, category, timestamp) ==
    [amount |-> amount, category |-> category, timestamp |-> timestamp,
     hasDecision |-> FALSE, decision |-> NoDecision, hasColor |-> FALSE, color |-> ""]

Missing(content) == [exists |-> FALSE, content |-> content]
Stored(content) == [exists |-> TRUE, content |-> content]

-----------------------------------------------------------------------------
\* DataStore.

LoadTransactions(file) == IF file.exists THEN file.content ELSE <<>>

DefaultProfile ==
    [monthly_income |-> 5000, current_savings |-> 10000, monthly_expenses |-> 3000,
     target_retirement_age |-> 65, current_age |-> 30,
     target_retirement_savings |-> 1000000]

\* A bug: a missing file yields an empty profile.
LoadUserProfileEmpty(file) ==
    IF file.exists THEN file.content ELSE [monthly_income |-> 0]

LoadUserProfile(file) == IF file.exists THEN file.content ELSE DefaultProfile

DefaultBudget ==
    [food |-> 500, transportation |-> 300, entertainment |-> 200, shopping |-> 400,
     bills |-> 800, other |-> 300]

LoadBudget(file) == IF file.exists THEN file.content ELSE DefaultBudget

\* DataStore.get_category_spending
RECURSIVE GetCategorySpending(_, _, _)
GetCategorySpending(transactions, category, year) ==
    IF transactions = <<>> THEN Zero
    ELSE LET t == Head(transactions)
             rest == GetCategorySpending(Tail(transactions), category, year)
         IN  IF Lower(t.category) = Lower(category)
                   /\ YearOf(FromIsoFormat(t.timestamp)) = year
             THEN RAdd(t.amount, rest)
             ELSE rest

\* The six sample transactions initialize_sample_data writes.
SampleTransactions(t) ==
    << Tx(Rat(4550, 100), "food", IsoFormat(MinusDays(t, 5))),
       Tx(Int2R(32), "food", IsoFormat(MinusDays(t, 3))),
       Tx(Int2R(120), "shopping", IsoFormat(MinusDays(t, 10))),
       Tx(Int2R(25), "entertainment", IsoFormat(MinusDays(t, 7))),
       Tx(Int2R(15), "entertainment", IsoFormat(MinusDays(t, 2))),
       Tx(Int2R(80), "transportation", IsoFormat(MinusDays(t, 5))) >>

\* DataStore.initialize_sample_data: the file after the call.
InitializeSampleData(file, t) ==
    IF Len(LoadTransactions(file)) = 0 THEN Stored(SampleTransactions(t)) ELSE file

\* A bug: the entry is written as it was before the decision was attached.
SavedTransactionsBare(loaded, transaction) ==
    Stored(Append(loaded, Tx(transaction.amount, transaction.category,
                             transaction.timestamp)))

\* A bug: the file is written with the new entry alone.
SavedTransactionsAlone(loaded, transaction) == Stored(<<transaction>>)

\* A bug: the new entry is put in front of the list read.
SavedTransactionsInFront(loaded, transaction) == Stored(<<transaction>> \o loaded)

\* DataStore.save_transaction, its write: the list read with the new entry appended.
SavedTransactions(loaded, transaction) == Stored(Append(loaded, transaction))

-----------------------------------------------------------------------------
\* The LLM call client.messages.create(...) and what the agents make of its
\* answer. A response is one of:
\*   raise    the call raises;
\*   nojson   it returns text in which re.search(r'\{[^}]+\}') finds nothing;
\*   badjson  the text matched is not valid JSON, so json.loads raises;
\*   json     the text matched is a JSON object, obj.

LLMRaise == [kind |-> "raise", obj |-> NoResult]
LLMNoJson == [kind |-> "nojson", obj |-> NoResult]
LLMBadJson == [kind |-> "badjson", obj |-> NoResult]
LLMJson(obj) == [kind |-> "json", obj |-> obj]

\* LongevityAgent.analyze: savings_rate and required_savings_rate.
LongevityLocals(user_profile) ==
    LET monthly_income == Get(user_profile, "monthly_income", 5000)
        current_savings == Get(user_profile, "current_savings", 10000)
        monthly_expenses == Get(user_profile, "monthly_expenses", 3000)
        current_age == Get(user_profile, "current_age", 30)
        target_age == Get(user_profile, "target_retirement_age", 65)
        target_savings == Get(user_profile, "target_retirement_savings", 1000000)
        years_to_retirement == target_age - current_age
        required_savings == target_savings - current_savings
        required_monthly_savings ==
            IF years_to_retirement > 0
            THEN Rat(required_savings, years_to_retirement * 12) ELSE Zero
    IN  [savings_rate |->
            IF monthly_income > 0
            THEN Rat(monthly_income - monthly_expenses, monthly_income) ELSE Zero,
         required_savings_rate |->
            IF monthly_income > 0
            THEN RMul(required_monthly_savings, Rat(1, monthly_income)) ELSE Zero]

\* The score both fallbacks of LongevityAgent.analyze compute.
LongevityFallbackScore(savings_rate, required_savings_rate) ==
    IF RGt(required_savings_rate, Zero)
    THEN RMin(One, RDiv(savings_rate, required_savings_rate))
    ELSE Half

\* The status when re.search finds no JSON object (the else branch in the try).
LongevityNoMatchStatus(savings_rate, required_savings_rate) ==
    IF RLt(savings_rate, required_savings_rate) THEN "BORDERLINE" ELSE "OK"

\* The status in the except branch.
LongevityExceptStatus(savings_rate, required_savings_rate) ==
    IF RGe(savings_rate, RMul(required_savings_rate, Rat(9, 10))) THEN "OK"
    ELSE IF RGe(savings_rate, RMul(required_savings_rate, Rat(7, 10))) THEN "BORDERLINE"
    ELSE "RISKY"

\* LongevityAgent.analyze
LongevityAnalyze(user_profile, llm) ==
    LET loc == LongevityLocals(user_profile)
        sr == loc.savings_rate
        rr == loc.required_savings_rate
    IN  CASE llm.kind = "json" -> llm.obj
          [] llm.kind = "nojson" ->
               Result(LongevityNoMatchStatus(sr, rr), TRUE,
                      Num(LongevityFallbackScore(sr, rr)))
          [] OTHER ->
               Result(LongevityExceptStatus(sr, rr), TRUE,
                      Num(LongevityFallbackScore(sr, rr)))

\* BudgetAgent.analyze: percentage_used.
BudgetPercentageUsed(budget, transactions, category, amount, current_year) ==
    LET category_budget == Get(budget, Lower(category), Get(budget, "other", 300))
        year_spending == GetCategorySpending(transactions, category, current_year)
        projected_spending == RAdd(year_spending, amount)
        annual_budget == category_budget * 12
    IN  IF annual_budget > 0
        THEN RMul(RMul(projected_spending, Rat(1, annual_budget)), Int2R(100))
        ELSE Zero

\* The fallback of BudgetAgent.analyze, the same in the try and in the except.
BudgetFallback(percentage_used) ==
    Result(IF RLe(percentage_used, Int2R(80)) THEN "OK"
           ELSE IF RLe(percentage_used, Int2R(100)) THEN "BORDERLINE"
           ELSE "RISKY",
           TRUE,
           Num(RMax(Zero, RSub(One, RMul(percentage_used, Rat(1, 100))))))

\* BudgetAgent.analyze
BudgetAnalyze(budget, transactions, category, amount, current_year, llm) ==
    IF llm.kind = "json" THEN llm.obj
    ELSE BudgetFallback(
             BudgetPercentageUsed(budget, transactions, category, amount, current_year))

\* transactions mapped to their amounts
RECURSIVE Amounts(_)
Amounts(transactions) ==
    IF transactions = <<>> THEN <<>>
    ELSE <<Head(transactions).amount>> \o Amounts(Tail(transactions))

\* A bug: with no transaction in the category the statistics are those of the
\* purchase itself, whatever else the history holds.
AnomalyLocalsOwnAmount(transactions, category, amount) ==
    LET InCategory(t) == Lower(t.category) = Lower(category)
        category_amounts == Amounts(SelectSeq(transactions, InCategory))
        category_avg ==
            IF category_amounts # <<>>
            THEN RMul(SumR(category_amounts), Rat(1, Len(category_amounts)))
            ELSE amount
        category_max == IF category_amounts # <<>> THEN MaxR(category_amounts) ELSE amount
    IN  [category_avg |-> category_avg,
         category_max |-> category_max,
         is_large |-> RGt(amount, RMul(category_avg, Int2R(3))),
         is_very_large |-> RGt(amount, RMul(category_max, Rat(3, 2))),
         raises |-> category_avg = Zero \/ category_max = Zero]

\* AnomalyAgent.analyze: the statistics and the two flags. raises: the prompt's
\* amount / category_avg or amount / category_max divides by zero, outside the try.
AnomalyLocals(transactions, category, amount) ==
    LET amounts == Amounts(transactions)
        InCategory(t) == Lower(t.category) = Lower(category)
        category_amounts == Amounts(SelectSeq(transactions, InCategory))
        avg_amount ==
            IF transactions # <<>>
            THEN RMul(SumR(amounts), Rat(1, Len(amounts))) ELSE amount
        max_amount == IF transactions # <<>> THEN MaxR(amounts) ELSE amount
        category_avg ==
            IF transactions # <<>> /\ category_amounts # <<>>
            THEN RMul(SumR(category_amounts), Rat(1, Len(category_amounts)))
            ELSE avg_amount
        category_max ==
            IF transactions # <<>> /\ category_amounts # <<>>
            THEN MaxR(category_amounts) ELSE max_amount
    IN  [category_avg |-> category_avg,
         category_max |-> category_max,
         is_large |-> RGt(amount, RMul(category_avg, Int2R(3))),
         is_very_large |-> RGt(amount, RMul(category_max, Rat(3, 2))),
         raises |-> category_avg = Zero \/ category_max = Zero]

\* The fallback of AnomalyAgent.analyze, the same in the try and in the except.
AnomalyFallback(loc) ==
    Result(IF loc.is_very_large THEN "RISKY"
           ELSE IF loc.is_large THEN "BORDERLINE"
           ELSE "OK",
           TRUE,
           Num(IF ~loc.is_large THEN One
               ELSE IF ~loc.is_very_large THEN Half ELSE Rat(1, 5)))

\* AnomalyAgent.analyze
AnomalyAnalyze(loc, llm) == IF llm.kind = "json" THEN llm.obj ELSE AnomalyFallback(loc)

-----------------------------------------------------------------------------
\* DecisionAgent.aggregate

\* result.get('score', 0.5)
ScoreOr(result) == IF result.score.kind = "missing" THEN Half ELSE result.score.v

\* A score that is no number makes the weighted sum raise TypeError.
AggregateRaises(longevity_result, budget_result, anomaly_result) ==
    \E res \in {longevity_result, budget_result, anomaly_result} : res.score.kind = "str"

OverallScore(longevity_result, budget_result, anomaly_result) ==
    RAdd(RAdd(RMul(ScoreOr(longevity_result), Rat(40, 100)),
              RMul(ScoreOr(budget_result), Rat(35, 100))),
         RMul(ScoreOr(anomaly_result), Rat(25, 100)))

\* A bug: the comparisons are turned around (<= for >=).
ColorOfSwapped(overall_score) ==
    IF RLe(overall_score, Rat(7, 10)) THEN "GREEN"
    ELSE IF RLe(overall_score, Rat(4, 10)) THEN "WHITE"
    ELSE "RED"

ColorOf(overall_score) ==
    IF RGe(overall_score, Rat(7, 10)) THEN "GREEN"
    ELSE IF RGe(overall_score, Rat(4, 10)) THEN "WHITE"
    ELSE "RED"

\* A bug: the floor of 1 is left out.
RoundUpNoFloor(amount) == RSub(Int2R(PyRound(amount)), amount)

\* round_up = max(1, round(amount) - amount)
RoundUp(amount) == RMax(One, RSub(Int2R(PyRound(amount)), amount))

\* auto_invest before the final round(auto_invest, 2)
AutoInvest(color, amount) ==
    IF color = "GREEN" THEN RAdd(RoundUp(amount), RMul(amount, Rat(5, 100)))
    ELSE IF color = "WHITE" THEN RoundUp(amount)
    ELSE RAdd(RoundUp(amount), RMul(amount, Rat(10, 100)))

\* The locals of aggregate: overall_score, color, round_up, auto_invest.
AggregateLocals(longevity_result, budget_result, anomaly_result, amount) ==
    LET overall_score == OverallScore(longevity_result, budget_result, anomaly_result)
        color == ColorOf(overall_score)
    IN  [overall_score |-> overall_score, color |-> color,
         round_up |-> RoundUp(amount), auto_invest |-> AutoInvest(color, amount)]

\* The dict aggregate returns; the explanation is the LLM's text, or the template
\* when the call raises.
Aggregate(longevity_result, budget_result, anomaly_result, amount, llm) ==
    LET loc == AggregateLocals(longevity_result, budget_result, anomaly_result, amount)
    IN  [color |-> loc.color,
         explanation |-> IF llm.kind = "raise" THEN "template" ELSE "llm",
         auto_invest |-> PyRound2(loc.auto_invest),
         score |-> loc.overall_score,
         agent_results |-> [longevity |-> longevity_result, budget |-> budget_result,
                            anomaly |-> anomaly_result]]

-----------------------------------------------------------------------------
\* MultiAgentSystem.get_dashboard_data

\* sorted(..., key = timestamp, reverse = True): a stable insertion, an entry
\* goes after every entry whose timestamp is not smaller than its own.
RECURSIVE InsertDesc(_, _)
InsertDesc(sorted, t) ==
    IF sorted = <<>> THEN <<t>>
    ELSE IF StrLess(Head(sorted).timestamp, t.timestamp) THEN <<t>> \o sorted
    ELSE <<Head(sorted)>> \o InsertDesc(Tail(sorted), t)

RECURSIVE SortedDesc(_)
SortedDesc(transactions) ==
    IF transactions = <<>> THEN <<>>
    ELSE InsertDesc(SortedDesc(SubSeq(transactions, 1, Len(transactions) - 1)),
                    transactions[Len(transactions)])

\* s[:k]
Take(s, k) == SubSeq(s, 1, IF Len(s) < k THEN Len(s) ELSE k)

\* A bug: the list is cut without being sorted.
RecentTransactionsUnsorted(transactions) == Take(transactions, 10)

\* recent = sorted(transactions, key=lambda x: x['timestamp'], reverse=True)[:10]
RecentTransactions(transactions) == Take(SortedDesc(transactions), 10)

GetDashboardData(transactions, user_profile, budget, current_year, llm) ==
    LET status == LongevityAnalyze(user_profile, llm).status
    IN  [called |-> TRUE,
         recent_transactions |-> RecentTransactions(transactions),
         category_spending |->
             [cat \in DOMAIN budget |->
                 [budget |-> budget[cat] * 12,
                  spent |-> GetCategorySpending(transactions, cat, current_year)]],
         long_term_status |-> IF status = "" THEN "BORDERLINE" ELSE status,
         user_profile |-> user_profile]

NoDashboard ==
    [called |-> FALSE, recent_transactions |-> <<>>,
     category_spending |-> [cat \in {} |-> 0], long_term_status |-> "",
     user_profile |-> DefaultProfile]

\* GET /api/profile has not answered yet.
NoProfileResp == [returned |-> FALSE, profile |-> DefaultProfile]

-----------------------------------------------------------------------------
\* Requests and responses.

NoScript == [exists |-> FALSE, owner |-> 0]

\* The locals of the two agents before they have run.
NoAnomalyLocals ==
    [category_avg |-> Zero, category_max |-> Zero, is_large |-> FALSE,
     is_very_large |-> FALSE, raises |-> FALSE]
NoAggregateLocals ==
    [overall_score |-> Zero, color |-> "", round_up |-> Zero, auto_invest |-> Zero]

IdleReq ==
    [pc |-> "idle", route |-> "", amount |-> Zero, category |-> "", recipient |-> FALSE,
     transaction |-> Tx(Zero, "", <<>>), user_profile |-> DefaultProfile,
     llm |-> [longevity |-> "", budget |-> "", anomaly |-> ""],
     longevity_result |-> NoResult, budget_result |-> NoResult,
     anomaly_result |-> NoResult,
     anomaly_locals |-> NoAnomalyLocals,
     agg |-> NoAggregateLocals,
     decision |-> NoDecision, loaded |-> <<>>,
     script_written |-> FALSE, proc_started |-> FALSE, ran_script |-> NoScript,
     outcome |-> ""]

\* What a handler answered: the HTTP status, the body's "success" and "blocked",
\* whether the body carries "decision" / "analysis", the decision's color, and
\* whether the handler ran the payment process.
Response(route, code, success, blocked, hasDecision, hasAnalysis, color, ran) ==
    [route |-> route, code |-> code, success |-> success, blocked |-> blocked,
     hasDecision |-> hasDecision, hasAnalysis |-> hasAnalysis, color |-> color,
     ran |-> ran]
NoResponse == Response("", 0, FALSE, FALSE, FALSE, FALSE, "", FALSE)
ErrorResponse(route, code, ran) == Response(route, code, FALSE, FALSE, FALSE, FALSE, "", ran)

-----------------------------------------------------------------------------
\* The system's steps.

\* system = MultiAgentSystem(): __init__ seeds the sample data.
Construct ==
    /\ ~constructed
    /\ constructed' = TRUE
    /\ txFile' = InitializeSampleData(txFile, now)
    /\ UNCHANGED <<profileResp, profileFile, budgetFile, scriptFile, now, req, resp, dash, agg>>

\* The wall clock moves (forward, or back when it is adjusted).
Tick(t) ==
    /\ constructed
    /\ t # now
    /\ now' = t
    /\ UNCHANGED <<profileResp, txFile, profileFile, budgetFile, scriptFile, constructed, req, resp,
                   dash, agg>>

\* POST /api/profile: DataStore.save_user_profile(profile)
SaveProfile(profile) ==
    /\ constructed
    /\ profileFile' = Stored(profile)
    /\ UNCHANGED <<profileResp, txFile, budgetFile, scriptFile, constructed, now, req, resp, dash, agg>>

\* A bug: the recipient is not looked at.
IsInvalidAmountOnly(route, amount, recipient) == RLe(amount, Zero)

\* if amount <= 0: 400; on /api/locus/send-payment also if not recipient: 400.
\* recipient is TRUE when the body names one.
IsInvalid(route, amount, recipient) ==
    RLe(amount, Zero) \/ (route = "send" /\ ~recipient)

\* GET /api/profile: profile = DataStore.load_user_profile(); return jsonify(profile)
GetProfile ==
    /\ constructed
    /\ profileResp' = [returned |-> TRUE, profile |-> LoadUserProfile(profileFile)]
    /\ UNCHANGED <<txFile, profileFile, budgetFile, scriptFile, constructed, now, req,
                   resp, dash, agg>>

\* A purchase request arrives: the route validates its input, then
\* analyze_purchase builds the transaction and loads the profile.
\* /purchase, /api/analyze and /api/locus/analyze-with-steps are route "analyze";
\* /api/locus/send-payment is route "send", which does not normalise the category.
Request(r, route, amount, category, recipient, limit) ==
    /\ constructed
    /\ req[r].pc = "idle"
    /\ Len(LoadTransactions(txFile)) < limit
    /\ IF IsInvalid(route, amount, recipient)
       THEN /\ resp' = [resp EXCEPT ![r] = ErrorResponse(route, 400, FALSE)]
            /\ req' = req
       ELSE /\ req' = [req EXCEPT ![r] =
                 [IdleReq EXCEPT
                    !.pc = "longevity", !.route = route, !.amount = amount,
                    !.recipient = (route = "send" /\ recipient),
                    !.category = IF route = "analyze" /\ category \notin CATEGORIES
                                 THEN "other" ELSE category,
                    !.transaction =
                        Tx(amount,
                           IF route = "analyze" /\ category \notin CATEGORIES
                           THEN "other" ELSE category,
                           IsoFormat(now)),
                    !.user_profile = LoadUserProfile(profileFile)]]
            /\ resp' = [resp EXCEPT ![r] = NoResponse]
    /\ UNCHANGED <<profileResp, txFile, profileFile, budgetFile, scriptFile, constructed, now, dash, agg>>

\* longevity_result = self.longevity_agent.analyze(user_profile, transaction)
LongevityStep(r, llm) ==
    /\ req[r].pc = "longevity"
    /\ req' = [req EXCEPT ![r].pc = "budget",
                          ![r].llm.longevity = llm.kind,
                          ![r].longevity_result = LongevityAnalyze(req[r].user_profile, llm)]
    /\ UNCHANGED <<profileResp, txFile, profileFile, budgetFile, scriptFile, constructed, now, resp,
                   dash, agg>>

\* budget_result = self.budget_agent.analyze(category, amount)
BudgetStep(r, llm) ==
    /\ req[r].pc = "budget"
    /\ req' = [req EXCEPT ![r].pc = "anomaly",
                          ![r].llm.budget = llm.kind,
                          ![r].budget_result =
                              BudgetAnalyze(LoadBudget(budgetFile), LoadTransactions(txFile),
                                            req[r].category, req[r].amount,
                                            YearOf(now), llm)]
    /\ UNCHANGED <<profileResp, txFile, profileFile, budgetFile, scriptFile, constructed, now, resp,
                   dash, agg>>

\* anomaly_result = self.anomaly_agent.analyze(category, amount)
AnomalyStep(r, llm) ==
    /\ req[r].pc = "anomaly"
    /\ LET loc == AnomalyLocals(LoadTransactions(txFile), req[r].category, req[r].amount)
       IN  IF loc.raises
           THEN /\ req' = [req EXCEPT ![r] = IdleReq]
                /\ resp' = [resp EXCEPT ![r] = ErrorResponse(req[r].route, 500, FALSE)]
           ELSE /\ req' = [req EXCEPT ![r].pc = "decision",
                                      ![r].llm.anomaly = llm.kind,
                                      ![r].anomaly_locals = loc,
                                      ![r].anomaly_result = AnomalyAnalyze(loc, llm)]
                /\ resp' = resp
    /\ UNCHANGED <<profileResp, txFile, profileFile, budgetFile, scriptFile, constructed, now, dash, agg>>

\* decision = self.decision_agent.aggregate(...); transaction['decision'] = decision;
\* transaction['color'] = decision['color']. A TypeError in aggregate leaves
\* analyze_purchase and is answered 500 by the route.
DecisionStep(r, llm) ==
    /\ req[r].pc = "decision"
    /\ LET l == req[r].longevity_result
           b == req[r].budget_result
           a == req[r].anomaly_result
           decision == Aggregate(l, b, a, req[r].amount, llm)
       IN  IF AggregateRaises(l, b, a)
           THEN /\ req' = [req EXCEPT ![r] = IdleReq]
                /\ resp' = [resp EXCEPT ![r] = ErrorResponse(req[r].route, 500, FALSE)]
           ELSE /\ req' = [req EXCEPT
                             ![r].pc = "save_load",
                             ![r].agg = AggregateLocals(l, b, a, req[r].amount),
                             ![r].decision = decision,
                             ![r].transaction =
                                 [req[r].transaction EXCEPT
                                    !.hasDecision = TRUE, !.decision = decision,
                                    !.hasColor = TRUE, !.color = decision.color]]
                /\ resp' = resp
    /\ UNCHANGED <<profileResp, txFile, profileFile, budgetFile, scriptFile, constructed, now, dash, agg>>

\* DataStore.save_transaction: transactions = DataStore.load_transactions()
SaveLoad(r) ==
    /\ req[r].pc = "save_load"
    /\ req' = [req EXCEPT ![r].pc = "save_write", ![r].loaded = LoadTransactions(txFile)]
    /\ UNCHANGED <<profileResp, txFile, profileFile, budgetFile, scriptFile, constructed, now, resp,
                   dash, agg>>

\* A bug: analyze_purchase returns without saving the transaction.
SaveWriteSkipped(r) ==
    /\ req[r].pc = "save_write"
    /\ req' = [req EXCEPT ![r].pc = "return", ![r].loaded = <<>>]
    /\ UNCHANGED <<txFile, profileFile, budgetFile, scriptFile, constructed, now, resp,
                   dash, profileResp, agg>>

\* DataStore.save_transaction: transactions.append(transaction); json.dump(...)
SaveWrite(r) ==
    /\ req[r].pc = "save_write"
    /\ txFile' = SavedTransactions(req[r].loaded, req[r].transaction)
    /\ req' = [req EXCEPT ![r].pc = "return", ![r].loaded = <<>>]
    /\ UNCHANGED <<profileResp, profileFile, budgetFile, scriptFile, constructed, now, resp, dash, agg>>

\* A bug: the color is compared with a lower-case name, which never matches.
IsBlockedLowerCase(decision_color) == decision_color = "red"

\* if decision_color == "RED": the payment is blocked.
IsBlocked(decision_color) == decision_color = "RED"

\* analyze_purchase returns and the route answers. /api/locus/send-payment
\* answers 403 when the color is RED and otherwise writes the temporary script.
Return(r) ==
    /\ req[r].pc = "return"
    /\ LET color == req[r].decision.color
       IN  IF req[r].route = "analyze"
           THEN /\ resp' = [resp EXCEPT ![r] =
                      Response("analyze", 200, TRUE, FALSE, TRUE, FALSE, color, FALSE)]
                /\ req' = [req EXCEPT ![r] = IdleReq]
                /\ scriptFile' = scriptFile
           ELSE IF IsBlocked(color)
           THEN /\ resp' = [resp EXCEPT ![r] =
                      Response("send", 403, FALSE, TRUE, TRUE, TRUE, color, FALSE)]
                /\ req' = [req EXCEPT ![r] = IdleReq]
                /\ scriptFile' = scriptFile
           ELSE /\ scriptFile' = [exists |-> TRUE, owner |-> r]
                /\ req' = [req EXCEPT ![r].pc = "run", ![r].script_written = TRUE]
                /\ resp' = resp
    /\ UNCHANGED <<profileResp, txFile, profileFile, budgetFile, constructed, now, dash, agg>>

\* subprocess.run(['node', temp_script], ..., timeout=30): the process executes
\* whatever the script file holds when it starts, and ends in one of
\*   exit0    return code 0, stdout is JSON;
\*   badout   return code 0, stdout is not JSON;
\*   nonzero  return code # 0;
\*   timeout  subprocess.TimeoutExpired.
\* node exits non-zero when the script file is not there.
RunProcess(r, outcome) ==
    /\ req[r].pc = "run"
    /\ ~scriptFile.exists => outcome = "nonzero"
    /\ req' = [req EXCEPT ![r].pc = "cleanup", ![r].proc_started = TRUE,
                          ![r].ran_script = scriptFile, ![r].outcome = outcome]
    /\ UNCHANGED <<profileResp, txFile, profileFile, budgetFile, scriptFile, constructed, now, resp,
                   dash, agg>>

\* A bug: the script is left where it is.
RemovedScriptKept(file) == file

\* if os.path.exists(temp_script): os.remove(temp_script)
RemovedScript(file) == IF file.exists THEN NoScript ELSE file

\* The finally clause removes the script if it exists; then the route answers.
\* The existence test and the removal are taken as one step.
Cleanup(r) ==
    /\ req[r].pc = "cleanup"
    /\ scriptFile' = RemovedScript(scriptFile)
    /\ LET color == req[r].decision.color
           outcome == req[r].outcome
       IN  resp' = [resp EXCEPT ![r] =
                CASE outcome = "exit0" ->
                       Response("send", 200, TRUE, FALSE, FALSE, TRUE, color, TRUE)
                  [] outcome = "nonzero" ->
                       Response("send", 500, FALSE, FALSE, FALSE, TRUE, color, TRUE)
                  [] OTHER ->
                       Response("send", 500, FALSE, FALSE, FALSE, FALSE, color, TRUE)]
    /\ req' = [req EXCEPT ![r] = IdleReq]
    /\ UNCHANGED <<profileResp, txFile, profileFile, budgetFile, constructed, now, dash, agg>>

\* GET / and GET /api/dashboard: system.get_dashboard_data()
Dashboard(llm) ==
    /\ constructed
    /\ dash' = GetDashboardData(LoadTransactions(txFile), LoadUserProfile(profileFile),
                                LoadBudget(budgetFile), YearOf(now), llm)
    /\ UNCHANGED <<profileResp, txFile, profileFile, budgetFile, scriptFile, constructed, now, req,
                   resp, agg>>

-----------------------------------------------------------------------------
\* DecisionAgent.aggregate applied on its own to three agent results and an amount.

\* The three results and the amount aggregate is to be applied to.
AggregateInput(l, b, a, amount) ==
    [longevity |-> l, budget |-> b, anomaly |-> a, amount |-> amount,
     applied |-> FALSE, locals |-> NoAggregateLocals, decision |-> NoDecision,
     before |-> ""]

\* The application: the locals and the dict returned. before is the color of
\* the application before, "" when there was none.
AggregateOf(l, b, a, amount, before) ==
    [longevity |-> l, budget |-> b, anomaly |-> a, amount |-> amount,
     applied |-> TRUE,
     locals |-> AggregateLocals(l, b, a, amount),
     decision |-> Aggregate(l, b, a, amount, LLMRaise),
     before |-> before]

NoAggregate == AggregateInput(NoResult, NoResult, NoResult, Zero)

\* aggregate is applied to the input.
ApplyAggregate ==
    /\ ~agg.applied
    /\ agg' = AggregateOf(agg.longevity, agg.budget, agg.anomaly, agg.amount, "")
    /\ UNCHANGED <<profileResp, txFile, profileFile, budgetFile, scriptFile, constructed, now,
                   req, resp, dash>>

\* aggregate is applied again with one agent's score raised, the rest as before.
RaiseScore(agent, score) ==
    LET raised == [agg[agent] EXCEPT !.score = score]
        l == IF agent = "longevity" THEN raised ELSE agg.longevity
        b == IF agent = "budget" THEN raised ELSE agg.budget
        a == IF agent = "anomaly" THEN raised ELSE agg.anomaly
    IN  /\ agg.applied
        /\ score.kind = "num"
        /\ RGt(score.v, ScoreOr(agg[agent]))
        /\ agg' = AggregateOf(l, b, a, agg.amount, agg.locals.color)
        /\ UNCHANGED <<profileResp, txFile, profileFile, budgetFile, scriptFile, constructed, now,
                       req, resp, dash>>

-----------------------------------------------------------------------------
\* The sequential system: one request is served at a time.

Routes == {"analyze", "send"}
ProcessOutcomes == {"exit0", "badout", "nonzero", "timeout"}

\* Inputs of the requests, and the answers of the LLM to a scoring agent and to
\* the decision agent.
SysAmounts == {Zero, Rat(1940, 100)}
SysCategories == {"food"}
SysProfiles == {[monthly_expenses |-> 6000]}
SysAgentLLM ==
    {LLMRaise, LLMJson(Result("RISKY", TRUE, Num(Zero))),
     LLMJson(Result("OK", TRUE, StrScore))}
SysTextLLM == {LLMRaise, LLMNoJson}

\* Before construction, on day d: no transactions file, or an empty one.
InitAt(d) ==
    /\ txFile \in {Missing(<<>>), Stored(<<>>)}
    /\ profileFile = Missing(DefaultProfile)
    /\ budgetFile = Missing(DefaultBudget)
    /\ scriptFile = NoScript
    /\ constructed = FALSE
    /\ now = Time(d, 0)
    /\ req = [r \in Reqs |-> IdleReq]
    /\ resp = [r \in Reqs |-> NoResponse]
    /\ dash = NoDashboard
    /\ profileResp = NoProfileResp
    /\ agg = NoAggregate

Init == InitAt(StartDay)

Next ==
    \/ Construct
    \/ \E profile \in SysProfiles : SaveProfile(profile)
    \/ \E r \in SeqReqs, route \in Routes, amount \in SysAmounts,
          category \in SysCategories, recipient \in BOOLEAN :
          Request(r, route, amount, category, recipient, MaxTx)
    \/ \E r \in SeqReqs, llm \in SysAgentLLM : LongevityStep(r, llm)
    \/ \E r \in SeqReqs, llm \in SysAgentLLM : BudgetStep(r, llm)
    \/ \E r \in SeqReqs, llm \in SysAgentLLM : AnomalyStep(r, llm)
    \/ \E r \in SeqReqs, llm \in SysTextLLM : DecisionStep(r, llm)
    \/ \E r \in SeqReqs : SaveLoad(r)
    \/ \E r \in SeqReqs : SaveWrite(r)
    \/ \E r \in SeqReqs : Return(r)
    \/ \E r \in SeqReqs, outcome \in ProcessOutcomes : RunProcess(r, outcome)
    \/ \E r \in SeqReqs : Cleanup(r)

Spec == Init /\ [][Next]_vars

-----------------------------------------------------------------------------
\* One purchase analysed by the constructed system, over a wider range of
\* amounts, categories, stored profiles and answers of the LLM.

RawAmounts == {Zero, Rat(1940, 100), Int2R(6001)}
RawCategories == {"food", "Pets"}
PostedProfiles == {[monthly_expenses |-> 6000],
                   [monthly_income |-> 5000, monthly_expenses |-> 2750]}
AgentLLM ==
    {LLMRaise, LLMNoJson, LLMBadJson,
     LLMJson(Result("", FALSE, Num(Int2R(2)))),
     LLMJson(Result("OK", TRUE, StrScore))}
TextLLM == {LLMRaise, LLMNoJson}

NextAnalyze ==
    \/ Construct
    \/ \E profile \in PostedProfiles : SaveProfile(profile)
    \/ \E route \in Routes, amount \in RawAmounts, category \in RawCategories,
          recipient \in BOOLEAN :
          Request(1, route, amount, category, recipient,
                  Len(SampleTransactions(now)) + 1)
    \/ \E llm \in AgentLLM : LongevityStep(1, llm)
    \/ \E llm \in AgentLLM : BudgetStep(1, llm)
    \/ \E llm \in AgentLLM : AnomalyStep(1, llm)
    \/ \E llm \in TextLLM : DecisionStep(1, llm)
    \/ SaveLoad(1)
    \/ SaveWrite(1)
    \/ Return(1)
    \/ \E outcome \in ProcessOutcomes : RunProcess(1, outcome)
    \/ Cleanup(1)

SpecAnalyze == Init /\ [][NextAnalyze]_vars

-----------------------------------------------------------------------------
\* AnomalyAgent.analyze applied on its own: any stored history of at most
\* MaxHist transactions, any purchase, any answer of the LLM.

HistoryTransactions ==
    {Tx(amount, category, IsoFormat(Time(StartDay, 0))) :
        amount \in {Int2R(10), Int2R(100)}, category \in {"food", "FOOD", "shopping"}}
Histories == UNION {[1 .. n -> HistoryTransactions] : n \in 0 .. MaxHist}
AnomalyAmounts == {Rat(1940, 100), Int2R(40), Int2R(500)}
AnomalyCategories == {"food", "bills"}

InitAnomaly ==
    /\ txFile \in {Stored(h) : h \in Histories}
    /\ profileFile = Missing(DefaultProfile)
    /\ budgetFile = Missing(DefaultBudget)
    /\ scriptFile = NoScript
    /\ constructed = TRUE
    /\ now = Time(StartDay, 0)
    /\ req \in {[r \in Reqs |->
                   IF r = 1
                   THEN [IdleReq EXCEPT !.pc = "anomaly", !.route = "analyze",
                                        !.amount = amount, !.category = category,
                                        !.transaction = Tx(amount, category, IsoFormat(now))]
                   ELSE IdleReq] :
                amount \in AnomalyAmounts, category \in AnomalyCategories}
    /\ resp = [r \in Reqs |-> NoResponse]
    /\ dash = NoDashboard
    /\ profileResp = NoProfileResp
    /\ agg = NoAggregate

NextAnomaly == \E llm \in AgentLLM : AnomalyStep(1, llm)

SpecAnomaly == InitAnomaly /\ [][NextAnomaly]_vars

-----------------------------------------------------------------------------
\* DecisionAgent.aggregate applied on its own: any three scores of the grid (or
\* none), any amount; then again with one score raised.

GridScores == {Num(Rat(k, ScoreSteps)) : k \in -1 .. ScoreSteps + 1} \cup {NoScore}
AggregateAmounts ==
    {Rat(1940, 100), Rat(1960, 100), Rat(1, 2), Rat(3, 2), Int2R(20), Int2R(6001)}

InitAggregate ==
    /\ txFile = Missing(<<>>)
    /\ profileFile = Missing(DefaultProfile)
    /\ budgetFile = Missing(DefaultBudget)
    /\ scriptFile = NoScript
    /\ constructed = FALSE
    /\ now = Time(StartDay, 0)
    /\ req = [r \in Reqs |-> IdleReq]
    /\ resp = [r \in Reqs |-> NoResponse]
    /\ dash = NoDashboard
    /\ profileResp = NoProfileResp
    /\ agg \in {AggregateInput(Result("OK", TRUE, l), Result("OK", TRUE, b),
                               Result("OK", TRUE, a), amount) :
                  l \in GridScores, b \in GridScores, a \in GridScores,
                  amount \in AggregateAmounts}

NextAggregate ==
    \/ ApplyAggregate
    \/ \E agent \in {"longevity", "budget", "anomaly"}, score \in GridScores :
        RaiseScore(agent, score)

SpecAggregate == InitAggregate /\ [][NextAggregate]_vars

-----------------------------------------------------------------------------
\* The dashboard after a run of purchases by a system constructed on DashDay
\* (so that every timestamp falls in one year), while the clock moves among
\* DashTimes (the same second with and without microseconds, and a day
\* before every sample, to which the clock was set back).

DashDay == StartDay + 11
DashTimes == {Time(DashDay, 0), Time(DashDay, 1), Time(DashDay - 11, 0)}

NextDash ==
    \/ Construct
    \/ \E t \in DashTimes : Tick(t)
    \/ Request(1, "analyze", Rat(1940, 100), "food", TRUE, MaxDashTx)
    \/ LongevityStep(1, LLMRaise)
    \/ BudgetStep(1, LLMRaise)
    \/ AnomalyStep(1, LLMRaise)
    \/ DecisionStep(1, LLMRaise)
    \/ SaveLoad(1)
    \/ SaveWrite(1)
    \/ Return(1)
    \/ Dashboard(LLMRaise)

InitDash == InitAt(DashDay)

SpecDash == InitDash /\ [][NextDash]_vars

-----------------------------------------------------------------------------
\* Properties.

Colors == {"GREEN", "WHITE", "RED"}
Statuses == {"OK", "BORDERLINE", "RISKY"}
InUnit(x) == RLe(Zero, x) /\ RLe(x, One)
Persisted == LoadTransactions(txFile)
\* The LLM call failed or its answer could not be parsed.
LLMFailed(kind) == kind \in {"raise", "nojson", "badjson"}

\* C1: a completed analyze_purchase returns a decision whose color is GREEN,
\* WHITE or RED and whose score lies in [0, 1].
C1_DecisionInRange ==
    \A r \in Reqs :
        req[r].pc = "return" =>
            /\ req[r].decision.color \in Colors
            /\ InUnit(req[r].decision.score)

\* C2 as stated: every persisted transaction carries a decision and a color.
C2_EveryTransactionDecided ==
    \A i \in 1 .. Len(Persisted) : Persisted[i].hasDecision /\ Persisted[i].hasColor

\* The transaction request r is about to persist, as analyze_purchase built it.
SubmittedBy(r) ==
    [Tx(req[r].amount, req[r].category, req[r].transaction.timestamp) EXCEPT
        !.hasDecision = TRUE, !.decision = req[r].decision,
        !.hasColor = TRUE, !.color = req[r].decision.color]

\* C2 amended: the sample transactions written at construction carry neither a
\* decision nor a color; every transaction persisted afterwards carries the
\* decision its own request computed and that decision's color; and a
\* persisted transaction never changes.
C2_DecidedAtSubmission ==
    [][LET old == LoadTransactions(txFile)
           new == LoadTransactions(txFile')
       IN  /\ Len(new) >= Len(old)
           /\ \A i \in 1 .. Len(old) : new[i] = old[i]
           /\ \A i \in Len(old) + 1 .. Len(new) :
                 IF constructed
                 THEN \E r \in Reqs :
                         /\ req[r].pc = "save_write"
                         /\ new[i] = SubmittedBy(r)
                         /\ new[i].decision =
                               Aggregate(req[r].longevity_result, req[r].budget_result,
                                         req[r].anomaly_result, req[r].amount,
                                         IF new[i].decision.explanation = "template"
                                         THEN LLMRaise ELSE LLMNoJson)
                 ELSE ~new[i].hasDecision /\ ~new[i].hasColor]_vars

\* C2 witness: the six samples without a decision, then two decided purchases.
C2_Witness ==
    /\ Len(Persisted) = 8
    /\ \A i \in 1 .. 6 : ~Persisted[i].hasDecision
    /\ \A i \in 7 .. 8 : Persisted[i].hasDecision /\ Persisted[i].hasColor
    /\ Persisted[7].color # Persisted[8].color

\* C3: on /api/locus/send-payment a RED analysis is answered 403 with
\* blocked = true and neither the script is written nor the process run; the
\* script is written and the process run only for GREEN or WHITE.
C3_RedNeverPays ==
    \A r \in Reqs :
        /\ (req[r].script_written \/ req[r].proc_started
               \/ req[r].pc \in {"run", "cleanup"})
              => req[r].route = "send" /\ req[r].decision.color \in {"GREEN", "WHITE"}
        /\ (scriptFile.exists /\ scriptFile.owner = r)
              => req[r].decision.color \in {"GREEN", "WHITE"}
        /\ resp[r].ran => resp[r].color \in {"GREEN", "WHITE"}
        /\ (resp[r].route = "send" /\ resp[r].color = "RED")
              => resp[r].code = 403 /\ resp[r].blocked /\ ~resp[r].ran

\* C3 witness: a send-payment request answered 403, blocked, without a process.
C3_Witness ==
    \E r \in Reqs :
        /\ resp[r].route = "send" /\ resp[r].color = "RED"
        /\ resp[r].code = 403 /\ resp[r].blocked /\ ~resp[r].ran
        /\ Persisted[Len(Persisted)].color = "RED"

WellFormed(result) ==
    /\ result.status \in Statuses
    /\ result.hasAnalysis
    /\ result.score.kind = "num"
    /\ InUnit(result.score.v)

\* C4: whatever the LLM call does, each scoring agent returns a well-formed
\* result: a status among OK, BORDERLINE, RISKY, an analysis, a score in [0, 1].
C4_AgentResultWellFormed ==
    \A r \in Reqs :
        /\ req[r].pc \in {"budget", "anomaly", "decision"}
              => WellFormed(req[r].longevity_result)
        /\ req[r].pc \in {"anomaly", "decision"} => WellFormed(req[r].budget_result)
        /\ req[r].pc = "decision" => WellFormed(req[r].anomaly_result)

\* The surcharge the spec names: 5% of the amount for GREEN, nothing for WHITE,
\* 10% of the amount for RED.
Surcharge(color, amount) ==
    IF color = "GREEN" THEN RMul(amount, Rat(5, 100))
    ELSE IF color = "WHITE" THEN Zero
    ELSE RMul(amount, Rat(10, 100))

\* C5: for an amount > 0 the auto_invest computed by aggregate, before it is
\* rounded to 2 decimals, is at least 1 plus the surcharge of the color.
C5_AutoInvestFloor ==
    (agg.applied /\ RGt(agg.amount, Zero)) =>
        /\ agg.locals.color \in Colors
        /\ RGe(agg.locals.auto_invest,
               RAdd(One, Surcharge(agg.locals.color, agg.amount)))

\* C5 witness: 19.40 judged GREEN, auto_invest 1 + 0.97.
C5_Witness ==
    /\ agg.applied
    /\ agg.amount = Rat(1940, 100)
    /\ agg.locals.color = "GREEN"
    /\ agg.locals.auto_invest = Rat(197, 100)

\* C6: round_up is the smallest amount that brings the purchase to the next
\* whole unit; for 19.40 judged GREEN round_up is 0.60 and auto_invest 1.57.
C6_RoundUpToNextUnit ==
    /\ (agg.applied /\ agg.amount.d # 1) =>
          agg.locals.round_up = RSub(Int2R(Ceil(agg.amount)), agg.amount)
    /\ (agg.applied /\ agg.amount = Rat(1940, 100) /\ agg.locals.color = "GREEN") =>
          /\ agg.locals.round_up = Rat(60, 100)
          /\ agg.decision.auto_invest = Rat(157, 100)

\* No persisted transaction is in the category of the purchase of request r.
NoPriorInCategory(r) ==
    \A i \in 1 .. Len(Persisted) : Lower(Persisted[i].category) # Lower(req[r].category)

\* The anomaly agent has answered request r by its fallback.
AnomalyFellBack(r) == req[r].pc = "decision" /\ LLMFailed(req[r].llm.anomaly)

\* C7 as stated: in the anomaly fallback, with no prior transaction in the
\* category, the category average and maximum are the amount, neither flag is
\* set and the status is OK.
C7_NoPriorMeansOK ==
    \A r \in Reqs :
        (AnomalyFellBack(r) /\ NoPriorInCategory(r)) =>
            /\ req[r].anomaly_locals.category_avg = req[r].amount
            /\ req[r].anomaly_locals.category_max = req[r].amount
            /\ ~req[r].anomaly_locals.is_large
            /\ ~req[r].anomaly_locals.is_very_large
            /\ req[r].anomaly_result.status = "OK"

\* C7 amended: that holds when the history is empty. When the history holds
\* transactions but none in the category, the category average and maximum
\* are the average and the maximum over all persisted transactions, and the
\* status is RISKY above 1.5 times that maximum, BORDERLINE above 3 times that
\* average, and OK otherwise.
C7_NoPriorFallsBackToGlobal ==
    \A r \in Reqs :
        (AnomalyFellBack(r) /\ NoPriorInCategory(r)) =>
            LET loc == req[r].anomaly_locals
                amount == req[r].amount
                all == Amounts(Persisted)
            IN  IF Persisted = <<>>
                THEN /\ loc.category_avg = amount /\ loc.category_max = amount
                     /\ ~loc.is_large /\ ~loc.is_very_large
                     /\ req[r].anomaly_result.status = "OK"
                ELSE /\ loc.category_avg = RDiv(SumR(all), Int2R(Len(all)))
                     /\ \E i \in 1 .. Len(all) : loc.category_max = all[i]
                     /\ \A i \in 1 .. Len(all) : RLe(all[i], loc.category_max)
                     /\ req[r].anomaly_result.status =
                           IF RGt(amount, RMul(loc.category_max, Rat(3, 2))) THEN "RISKY"
                           ELSE IF RGt(amount, RMul(loc.category_avg, Int2R(3)))
                           THEN "BORDERLINE"
                           ELSE "OK"

\* C7 witness: a history without the category, and a purchase judged RISKY.
C7_Witness ==
    \E r \in Reqs :
        /\ AnomalyFellBack(r) /\ NoPriorInCategory(r)
        /\ Persisted # <<>>
        /\ req[r].anomaly_locals.category_avg # req[r].amount
        /\ req[r].anomaly_result.status = "RISKY"

\* C8: when the longevity agent's LLM call fails or its answer cannot be
\* parsed, the status is OK if savings_rate >= 0.9 * required_rate, BORDERLINE
\* if savings_rate >= 0.7 * required_rate, and RISKY otherwise, the same on
\* every such path.
C8_FallbackThresholds ==
    \A r \in Reqs :
        (req[r].pc \in {"budget", "anomaly", "decision"}
            /\ LLMFailed(req[r].llm.longevity)) =>
            LET loc == LongevityLocals(req[r].user_profile)
                sr == loc.savings_rate
                rr == loc.required_savings_rate
            IN  req[r].longevity_result.status =
                    IF RGe(sr, RMul(Rat(9, 10), rr)) THEN "OK"
                    ELSE IF RGe(sr, RMul(Rat(7, 10), rr)) THEN "BORDERLINE"
                    ELSE "RISKY"

Rank(color) == CASE color = "RED" -> 0 [] color = "WHITE" -> 1 [] color = "GREEN" -> 2

\* C9: raising one agent's score, the other two held fixed, never moves the
\* color to a worse band.
C9_ColorMonotone == agg.before # "" => Rank(agg.locals.color) >= Rank(agg.before)

\* C9 witness: a raised score took the color from WHITE to GREEN.
C9_Witness == agg.before = "WHITE" /\ agg.locals.color = "GREEN"

TimeOf(transaction) == FromIsoFormat(transaction.timestamp)
Earlier(t, u) == t.d < u.d \/ (t.d = u.d /\ t.us < u.us)
Count(s, x) == Cardinality({i \in 1 .. Len(s) : s[i] = x})

\* recent is the min(10, N) latest of the N transactions, the latest first.
IsRecentOf(recent, transactions) ==
    /\ Len(recent) = IF Len(transactions) < 10 THEN Len(transactions) ELSE 10
    /\ \A i, j \in 1 .. Len(recent) :
          i < j => ~Earlier(TimeOf(recent[i]), TimeOf(recent[j]))
    /\ \A i \in 1 .. Len(recent) : Count(recent, recent[i]) <= Count(transactions, recent[i])
    /\ \A k \in 1 .. Len(transactions) :
          Count(recent, transactions[k]) < Count(transactions, transactions[k]) =>
              \A i \in 1 .. Len(recent) :
                  ~Earlier(TimeOf(recent[i]), TimeOf(transactions[k]))

\* C10: get_dashboard_data returns as recent_transactions the min(10, N)
\* persisted transactions with the greatest timestamps, in descending order.
C10_RecentTransactions ==
    [][dash' # dash =>
          /\ dash'.called
          /\ IsRecentOf(dash'.recent_transactions, LoadTransactions(txFile'))]_vars

\* C10 witness: eleven persisted transactions, of which the first purchase,
\* stamped by a clock set back behind every sample, is the one left out; a
\* purchase stamped with microseconds comes first.
C10_Witness ==
    LET recent == dash.recent_transactions
    IN  /\ dash.called
        /\ Len(Persisted) = 11
        /\ Persisted[7].timestamp = <<DashDay - 11>>
        /\ Len(recent) = 10
        /\ \A i \in 1 .. 10 : recent[i].timestamp # <<DashDay - 11>>
        /\ Len(recent[1].timestamp) = 2
-----------------------------------------------------------------------------
\* The data files: the profile is read by GET /api/profile, the dashboard and
\* analyze_purchase, and written by POST /api/profile; the budget is only read.

NextStore ==
    \/ Construct
    \/ \E profile \in PostedProfiles : SaveProfile(profile)
    \/ GetProfile
    \/ \E llm \in TextLLM : Dashboard(llm)
    \/ \E category \in RawCategories :
          Request(1, "analyze", Rat(1940, 100), category, FALSE,
                  Len(SampleTransactions(now)) + 1)
    \/ \E llm \in TextLLM : LongevityStep(1, llm)
    \/ BudgetStep(1, LLMRaise)
    \/ AnomalyStep(1, LLMRaise)
    \/ DecisionStep(1, LLMRaise)
    \/ SaveLoad(1)
    \/ SaveWrite(1)
    \/ Return(1)

SpecStore == Init /\ [][NextStore]_vars

\* C11: while the profile (budget) file is missing, GET /api/profile, the
\* dashboard and analyze_purchase all get the hard-coded default and leave the
\* file missing; the profile file appears only by POST /api/profile, which
\* changes nothing else; the budget file never appears.
C11_MissingFileDefaults ==
    /\ [](~profileFile.exists =>
            /\ profileResp.returned => profileResp.profile = DefaultProfile
            /\ dash.called =>
                  /\ dash.user_profile = DefaultProfile
                  /\ dash.long_term_status = "BORDERLINE"
            /\ \A r \in Reqs :
                  req[r].pc # "idle" => req[r].user_profile = DefaultProfile)
    /\ [](/\ ~budgetFile.exists
          /\ dash.called =>
                /\ DOMAIN dash.category_spending = DOMAIN DefaultBudget
                /\ \A cat \in DOMAIN DefaultBudget :
                      dash.category_spending[cat].budget = DefaultBudget[cat] * 12)
    /\ [][profileFile' # profileFile =>
            /\ profileFile'.exists
            /\ UNCHANGED <<txFile, budgetFile, scriptFile, constructed, now, req, resp,
                           dash, profileResp, agg>>]_vars

\* C11 witness: the profile was read by GET /api/profile, by the dashboard and
\* by a completed purchase, and the file is still missing.
C11_Witness ==
    /\ ~profileFile.exists /\ ~budgetFile.exists
    /\ profileResp.returned
    /\ dash.called
    /\ resp[1].code = 200
    /\ Len(Persisted) = Len(SampleTransactions(now)) + 1

\* C12: once /api/locus/send-payment has written the temporary script, the
\* script is gone when the handler answers, whatever the process did (exit 0,
\* non-zero exit, unparsable output, timeout); requests served one at a time.
C12_ScriptRemoved ==
    /\ []((\A r \in Reqs : req[r].pc = "idle") => ~scriptFile.exists)
    /\ [][\A r \in Reqs :
             (req[r].script_written /\ resp'[r] # resp[r]) =>
                 /\ req'[r].pc = "idle"
                 /\ resp'[r].route = "send" /\ resp'[r].ran
                 /\ ~scriptFile'.exists]_vars

\* C12 witness: the process timed out or printed no JSON (500 without the
\* analysis), the handler has answered and the script is gone.
C12_Witness ==
    /\ req[1].pc = "idle"
    /\ resp[1].route = "send" /\ resp[1].ran
    /\ resp[1].code = 500 /\ ~resp[1].hasAnalysis
    /\ ~scriptFile.exists

\* C13: when the payment process exits non-zero or times out,
\* /api/locus/send-payment answers 500 and the body still carries the analysis
\* of the purchase.
C13_ProcessErrorCarriesAnalysis ==
    [][\A r \in Reqs :
          (req[r].pc = "cleanup" /\ req[r].outcome \in {"nonzero", "timeout"}
              /\ resp'[r] # resp[r]) =>
              /\ resp'[r].code = 500
              /\ resp'[r].hasAnalysis]_vars

\* C14: a request with amount <= 0, or on /api/locus/send-payment without a
\* recipient, never reaches analyze_purchase: it is answered 400 and no file,
\* no agent and no payment process is touched.
C14_InvalidRejected ==
    /\ [](\A r \in Reqs :
            req[r].pc # "idle" =>
                /\ RGt(req[r].amount, Zero)
                /\ req[r].route = "send" => req[r].recipient)
    /\ [][\A r \in Reqs :
             (req[r].pc = "idle" /\ req'[r].pc = "idle" /\ resp'[r] # resp[r]) =>
                 /\ resp'[r].code = 400
                 /\ ~resp'[r].success /\ ~resp'[r].ran
                 /\ UNCHANGED <<txFile, profileFile, budgetFile, scriptFile, req>>]_vars

\* C14 witness: a send-payment request answered 400 on the seeded system, the
\* samples being all that is persisted.
C14_Witness ==
    /\ constructed
    /\ req[1].pc = "idle"
    /\ resp[1].route = "send" /\ resp[1].code = 400
    /\ Persisted = SampleTransactions(now)
    /\ ~scriptFile.exists

\* The order of a purchase request's steps; from the anomaly agent and from
\* aggregate an exception may end the request.
StepOrder ==
    {<<"idle", "longevity">>, <<"longevity", "budget">>, <<"budget", "anomaly">>,
     <<"anomaly", "decision">>, <<"decision", "save_load">>,
     <<"save_load", "save_write">>, <<"save_write", "return">>,
     <<"return", "idle">>, <<"return", "run">>, <<"run", "cleanup">>,
     <<"cleanup", "idle">>}
Raised == {<<"anomaly", "idle">>, <<"decision", "idle">>}

\* C15: analyze_purchase runs the Longevity, Budget and Anomaly agents in that
\* order whatever each answers, then aggregate, and only then appends its one
\* transaction: served one at a time, the persisted list changes only in that
\* append, to the list before followed by the new transaction, and the Budget
\* and Anomaly agents compute on the list without it.
C15_AgentsThenAppend ==
    [][/\ \A r \in Reqs :
            req'[r].pc # req[r].pc =>
                \/ <<req[r].pc, req'[r].pc>> \in StepOrder
                \/ /\ <<req[r].pc, req'[r].pc>> \in Raised
                   /\ resp'[r].code = 500
       /\ \A r \in Reqs :
            (req[r].pc = "budget" /\ req'[r].llm.budget = "raise") =>
                req'[r].budget_result =
                    BudgetAnalyze(LoadBudget(budgetFile), LoadTransactions(txFile),
                                  req[r].category, req[r].amount, YearOf(now), LLMRaise)
       /\ \A r \in Reqs :
            (req[r].pc = "anomaly" /\ req'[r].pc = "decision") =>
                req'[r].anomaly_locals =
                    AnomalyLocals(LoadTransactions(txFile), req[r].category, req[r].amount)
       /\ (constructed /\ txFile' # txFile) =>
            \E r \in Reqs :
                /\ req[r].pc = "save_write" /\ req'[r].pc = "return"
                /\ req[r].llm.longevity # "" /\ req[r].llm.budget # ""
                /\ req[r].llm.anomaly # ""
                /\ req[r].transaction.hasDecision
                /\ req[r].transaction.decision = req[r].decision
                /\ LoadTransactions(txFile') =
                      Append(LoadTransactions(txFile), req[r].transaction)]_vars

\* C15 witness: a completed purchase whose Longevity answer was RISKY with
\* score 0 and whose Budget and Anomaly agents fell back, appended as the
\* seventh transaction after the six samples.
C15_Witness ==
    /\ resp[1].code = 200
    /\ req[1].pc = "idle"
    /\ Len(Persisted) = Len(SampleTransactions(now)) + 1
    /\ LET results == Persisted[Len(Persisted)].decision.agent_results
       IN  /\ results.longevity.status = "RISKY"
           /\ results.longevity.score = Num(Zero)
           /\ results.budget.status = "OK"
           /\ results.anomaly.status = "OK"

-----------------------------------------------------------------------------
\* Two requests served concurrently (the server handles each request in a
\* thread of its own): their steps interleave in any order. Request r asks for
\* ConcAmount[r], so that the two transactions can be told apart.

ConcAmount == <<Rat(1940, 100), Int2R(40)>>

NextConcurrent ==
    \/ Construct
    \/ \E r \in Reqs, route \in Routes :
          Request(r, route, ConcAmount[r], "food", TRUE, MaxConcTx)
    \/ \E r \in Reqs : LongevityStep(r, LLMRaise)
    \/ \E r \in Reqs : BudgetStep(r, LLMRaise)
    \/ \E r \in Reqs : AnomalyStep(r, LLMRaise)
    \/ \E r \in Reqs : DecisionStep(r, LLMRaise)
    \/ \E r \in Reqs : SaveLoad(r)
    \/ \E r \in Reqs : SaveWrite(r)
    \/ \E r \in Reqs : Return(r)
    \/ \E r \in Reqs, outcome \in ProcessOutcomes : RunProcess(r, outcome)
    \/ \E r \in Reqs : Cleanup(r)

SpecConcurrent == Init /\ [][NextConcurrent]_vars

\* C16: save_transaction writes the list it read with its own transaction
\* appended, whatever was written in between, so two concurrent requests can
\* both succeed while only one of their transactions is persisted. A request
\* that has answered 200 has written, so the samples are followed by at least
\* one purchase.
C16_WriteOfStaleList ==
    /\ [](\A r \in Reqs :
            resp[r].code = 200 =>
                Len(Persisted) > Len(SampleTransactions(now)))
    /\ [][(constructed /\ txFile' # txFile) =>
            \E r \in Reqs :
                /\ req[r].pc = "save_write"
                /\ LoadTransactions(txFile') =
                      Append(req[r].loaded, req[r].transaction)]_vars

\* C16 witness: both requests have answered 200, and the persisted list is the
\* six samples followed by the transaction of request 2 alone.
C16_Witness ==
    /\ \A r \in Reqs : req[r].pc = "idle" /\ resp[r].code = 200
    /\ Len(Persisted) = Len(SampleTransactions(now)) + 1
    /\ Persisted[Len(Persisted)].amount = ConcAmount[2]
    /\ \A i \in 1 .. Len(Persisted) : Persisted[i].amount # ConcAmount[1]

\* C18: the payment process started for a request executes the script that
\* request wrote, and the script exists when the process starts.
C18_ProcessRunsOwnScript ==
    \A r \in Reqs :
        req[r].proc_started =>
            /\ req[r].ran_script.exists
            /\ req[r].ran_script.owner = r

\* The last persisted transaction is the one of request r.
LastIsOf(r, transactions) ==
    /\ Len(transactions) > 0
    /\ transactions[Len(transactions)] = req[r].transaction
    /\ req[r].transaction.hasDecision

====
